---- MODULE Spec2Model ----
(***************************************************************************)
(* The table-of-contents component of the blog, components/TOCInline.tsx:  *)
(* TOCInline filters the flat heading list `toc` by depth and by the       *)
(* exclusion pattern, and createNestedList turns the filtered list into a  *)
(* forest with an explicit stack.                                          *)
(*                                                                         *)
(* JavaScript objects are modelled as a heap: a heading record of `toc` is *)
(* referred to by its position in toc, a NestedTocItem by its position in  *)
(* `nodes` (the k-th newItem created).  Arrays of objects (filteredToc,    *)
(* stack, nestedList, children) are sequences of such references.          *)
(* Strings are sequences of one-character strings.  An optional value      *)
(* (an omitted prop, an absent children field) is a set with at most one   *)
(* element: {} is undefined, {x} is x.                                     *)
(***************************************************************************)
EXTENDS Integers, Sequences, FiniteSets, TLC

VARIABLES
    toc,          \* prop toc: the heading records, in document order
    props,        \* props fromHeading, toHeading, exclude as passed (optional)
    filteredToc,  \* TOCInline.filteredToc = createNestedList.items: refs into toc
    idx,          \* forEach: number of items whose callback has started
    nodes,        \* heap of the NestedTocItem objects created so far
    stack,        \* createNestedList.stack: refs into nodes
    nestedList,   \* createNestedList.nestedList: refs into nodes
    pc,           \* position: "start", "forEach", "while", "done", "rendered"
                  \* ("none" when no single call is modelled)
    popped,       \* history: the nodes stack.pop() has removed, in order
    output,       \* what TOCInline returns: {} until it has returned
    prev,         \* history: forest and output of the earlier renders
    conc,         \* two calls of createNestedList in progress at once (ConcSpec)
    layout        \* one render of ListLayoutWithTags (ListSpec)

\* the state of one call of TOCInline
mainVars == <<toc, props, filteredToc, idx, nodes, stack, nestedList, pc,
              popped, output, prev>>

vars == <<toc, props, filteredToc, idx, nodes, stack, nestedList, pc,
          popped, output, prev, conc, layout>>

----------------------------------------------------------------------------
(* Bounds of the model *)

\* longest heading list handed to createNestedList in BuilderSpec
MaxLen == 4

\* longest toc handed to TOCInline in Spec
MaxTocLen == 3

\* deepest heading level drawn
MaxDepth == 3

\* number of times the component is rendered with the same toc in RerunSpec
MaxRenders == 2

\* longest heading list handed to each of the two calls of ConcSpec
MaxConcLen == 2

\* largest totalPages handed to ListLayoutWithTags in ListSpec
MaxPages == 3

----------------------------------------------------------------------------
(* Program constants *)

DefaultFromHeading == 1

DefaultToHeading == 6

\* exclude = "" : the empty string
DefaultExclude == [isArray |-> FALSE, val |-> <<>>]

DefaultAsDisclosure == FALSE

DefaultCollapse == FALSE

DefaultUlClassName == "list-decimal"

DefaultLiClassName == ""

----------------------------------------------------------------------------
(* Helpers on sequences and optional values *)

Range(s) == {s[k] : k \in 1..Len(s)}

Last(s) == s[Len(s)]

Front(s) == SubSeq(s, 1, Len(s) - 1)

\* x ?? d for an optional value
OrDefault(opt, d) == IF opt = {} THEN d ELSE CHOOSE x \in opt : TRUE

\* the anchor of the k-th heading of the document (unique per heading)
Anchor(k) == <<"#", k>>

----------------------------------------------------------------------------
(* new RegExp("^(" + ... + ")$", "i") and re.test, for patterns made of     *)
(* letters: the source is split at "|" into alternatives, and a value       *)
(* matches when it equals one alternative letter by letter, ignoring case.  *)

ToLower(c) == CASE c = "A" -> "a" [] c = "B" -> "b" [] OTHER -> c

RECURSIVE Join(_, _)
\* Array.prototype.join
Join(arr, sep) ==
    IF Len(arr) = 0 THEN <<>>
    ELSE IF Len(arr) = 1 THEN arr[1]
    ELSE arr[1] \o sep \o Join(Tail(arr), sep)

\* the source text of the regular expression TOCInline builds
RegExpSource(exclude) ==
    IF exclude.isArray
    THEN <<"^", "(">> \o Join(exclude.val, <<"|">>) \o <<")", "$">>
    ELSE <<"^", "(">> \o exclude.val \o <<")", "$">>

RECURSIVE Split(_, _)
\* the alternatives of a|b|c : the text cut at every "|"
Split(s, sep) ==
    IF \A k \in 1..Len(s) : s[k] # sep THEN <<s>>
    ELSE LET p == CHOOSE k \in 1..Len(s) :
                      s[k] = sep /\ \A j \in 1..(k - 1) : s[j] # sep
         IN  <<SubSeq(s, 1, p - 1)>> \o Split(SubSeq(s, p + 1, Len(s)), sep)

\* the alternatives between "^(" and ")$"
Alternatives(src) == Split(SubSeq(src, 3, Len(src) - 2), "|")

\* a faulty variant: the expression without its closing "$"
MatchesPrefix(alt, value) ==
    /\ Len(alt) <= Len(value)
    /\ \A k \in 1..Len(alt) : ToLower(alt[k]) = ToLower(value[k])

\* a literal alternative against the whole value, flag "i"
MatchesLiteral(alt, value) ==
    /\ Len(alt) = Len(value)
    /\ \A k \in 1..Len(alt) : ToLower(alt[k]) = ToLower(value[k])

\* re.test(value)
RegExpTest(src, value) ==
    \E a \in 1..Len(Alternatives(src)) : MatchesLiteral(Alternatives(src)[a], value)

----------------------------------------------------------------------------
(* TOCInline: the props' defaults and the filter *)

FromHeadingOf(p) == OrDefault(p.fromHeading, DefaultFromHeading)

ToHeadingOf(p) == OrDefault(p.toHeading, DefaultToHeading)

ExcludeOf(p) == OrDefault(p.exclude, DefaultExclude)

\* a faulty variant: the two bounds are exclusive
DepthInRangeStrict(heading, from, to) == heading.depth > from /\ heading.depth < to

\* heading.depth >= fromHeading && heading.depth <= toHeading
DepthInRange(heading, from, to) == heading.depth >= from /\ heading.depth <= to

\* the predicate handed to toc.filter
FilterPredicate(heading, from, to, re) ==
    /\ DepthInRange(heading, from, to)
    /\ ~RegExpTest(re, heading.value)

RECURSIVE FilterRefs(_, _, _, _, _)
\* toc.filter(...): the references of the headings kept, from position k on
FilterRefs(t, k, from, to, re) ==
    IF k > Len(t) THEN <<>>
    ELSE (IF FilterPredicate(t[k], from, to, re) THEN <<k>> ELSE <<>>)
         \o FilterRefs(t, k + 1, from, to, re)

\* a faulty variant: the builder is handed toc instead of filteredToc
AllRefs(t, p) == [k \in 1..Len(t) |-> k]

FilteredTocOf(t, p) ==
    FilterRefs(t, 1, FromHeadingOf(p), ToHeadingOf(p), RegExpSource(ExcludeOf(p)))

----------------------------------------------------------------------------
(* createNestedList *)

\* const newItem = { ...item } : a fresh object with item's own fields; a
\* record of toc has no children field unless something has written one
Spread(item) ==
    [depth |-> item.depth, value |-> item.value, url |-> item.url,
     children |-> IF "children" \in DOMAIN item THEN item.children ELSE {}]

\* parent.children || []
ChildrenOf(node) == OrDefault(node.children, <<>>)

\* faulty variants of the loop condition: an equal depth is not popped;
\* only a node exactly one level up is kept as parent
WhileCondGreater(stk, nds, newItem) ==
    Len(stk) > 0 /\ nds[Last(stk)].depth > newItem.depth

WhileCondExactLevel(stk, nds, newItem) ==
    Len(stk) > 0 /\ nds[Last(stk)].depth # newItem.depth - 1

\* stack.length > 0 && stack[stack.length - 1].depth >= newItem.depth
WhileCond(stk, nds, newItem) ==
    Len(stk) > 0 /\ nds[Last(stk)].depth >= newItem.depth

\* a faulty variant: the children array is replaced, not extended
ResetAndPush(parent, ref) ==
    [parent EXCEPT !.children = {<<ref>>}]

\* a faulty variant: the new child is put first
PrependChild(parent, ref) ==
    [parent EXCEPT !.children = {<<ref>> \o ChildrenOf(parent)}]

\* a faulty variant: the child is pushed twice
PushChildTwice(parent, ref) ==
    [parent EXCEPT !.children = {Append(Append(ChildrenOf(parent), ref), ref)}]

\* parent.children = parent.children || []; parent.children.push(newItem)
PushChild(parent, ref) ==
    [parent EXCEPT !.children = {Append(ChildrenOf(parent), ref)}]

\* a faulty variant: only a child is pushed on the stack
PushIfChild(stk, ref, isChild) == IF isChild THEN Append(stk, ref) ELSE stk

\* stack.push(newItem), in both branches
StackPush(stk, ref, isChild) == Append(stk, ref)

\* a faulty variant: the parent is the item created before this one
ParentLastCreated(stk, nds) == Len(nds) - 1

\* const parent = stack[stack.length - 1], when the stack is not empty
Parent(stk, nds) == Last(stk)

\* a faulty variant: without the copy of line 12, the push writes the
\* children into the record of toc itself
InputWithChildren(t, itemRef, children) ==
    [t EXCEPT ![itemRef] =
        [depth |-> t[itemRef].depth, value |-> t[itemRef].value,
         url |-> t[itemRef].url, children |-> children]]

\* what parent.children.push does to toc: nothing, parent is a copy
\* (newItem of line 12) of the record at itemRef, not that record
InputAfterPush(t, itemRef, children) == t

\* TOCInline up to the call of createNestedList: the filter, then the
\* builder's two empty arrays
Filter ==
    /\ pc = "start"
    /\ filteredToc' = FilteredTocOf(toc, props)
    /\ idx' = 0
    /\ nodes' = <<>>
    /\ stack' = <<>>
    /\ nestedList' = <<>>
    /\ popped' = <<>>
    /\ pc' = "forEach"
    /\ UNCHANGED <<toc, props, output, prev>>
    /\ UNCHANGED <<conc, layout>>

\* the forEach callback starts on the next item: newItem is created
NewItem ==
    /\ pc = "forEach"
    /\ idx < Len(filteredToc)
    /\ idx' = idx + 1
    /\ nodes' = Append(nodes, Spread(toc[filteredToc[idx + 1]]))
    /\ pc' = "while"
    /\ UNCHANGED <<toc, props, filteredToc, stack, nestedList, popped, output, prev>>
    /\ UNCHANGED <<conc, layout>>

\* a faulty variant: the loop tests the top of the stack and removes nothing
PopNothing ==
    /\ pc = "while"
    /\ WhileCond(stack, nodes, nodes[idx])
    /\ UNCHANGED vars

\* one turn of the while loop: stack.pop()
Pop ==
    /\ pc = "while"
    /\ WhileCond(stack, nodes, nodes[idx])
    /\ stack' = Front(stack)
    /\ popped' = Append(popped, Last(stack))
    /\ UNCHANGED <<toc, props, filteredToc, idx, nodes, nestedList, pc, output, prev>>
    /\ UNCHANGED <<conc, layout>>

\* the loop has ended with a parent on the stack
AttachChild ==
    /\ pc = "while"
    /\ ~WhileCond(stack, nodes, nodes[idx])
    /\ Len(stack) > 0
    /\ LET parent == Parent(stack, nodes)
       IN  /\ nodes' = [nodes EXCEPT ![parent] = PushChild(nodes[parent], idx)]
           /\ toc' = InputAfterPush(toc, filteredToc[parent], nodes'[parent].children)
    /\ stack' = StackPush(stack, idx, TRUE)
    /\ pc' = "forEach"
    /\ UNCHANGED <<props, filteredToc, idx, nestedList, popped, output, prev>>
    /\ UNCHANGED <<conc, layout>>

\* the loop has ended with an empty stack: parent is null
AttachRoot ==
    /\ pc = "while"
    /\ ~WhileCond(stack, nodes, nodes[idx])
    /\ Len(stack) = 0
    /\ nestedList' = Append(nestedList, idx)
    /\ stack' = StackPush(stack, idx, FALSE)
    /\ pc' = "forEach"
    /\ UNCHANGED <<toc, props, filteredToc, idx, nodes, popped, output, prev>>
    /\ UNCHANGED <<conc, layout>>

\* forEach has visited every item: return nestedList
Return ==
    /\ pc = "forEach"
    /\ idx = Len(filteredToc)
    /\ pc' = "done"
    /\ UNCHANGED <<toc, props, filteredToc, idx, nodes, stack, nestedList,
                   popped, output, prev>>
    /\ UNCHANGED <<conc, layout>>

----------------------------------------------------------------------------
(* Two calls of createNestedList whose steps interleave.  The objects of    *)
(* both calls live in one heap; conc.owner records, for each object, the    *)
(* call that created it and the item it copies.  A call's arrays stack and  *)
(* nestedList are its frame.                                                *)

CallIds == {1, 2}

\* no call in progress
NoCalls == [heap |-> <<>>, owner |-> <<>>, calls |-> <<>>, frames |-> <<>>]

\* a faulty variant: stack and nestedList live outside the function, one
\* pair for all calls
SharedFrame(c) == 1

\* const nestedList = []; const stack = []: each call has arrays of its own
FrameOf(c) == c

FrameOfCall(c) == conc.frames[conc.calls[c].frame]

\* the forEach callback of call c starts on the next item
CNewItem(c) ==
    LET call == conc.calls[c]
    IN  /\ call.pc = "forEach"
        /\ call.idx < Len(call.items)
        /\ conc' = [conc EXCEPT
                       !.heap = Append(@, Spread(call.items[call.idx + 1])),
                       !.owner = Append(@, <<c, call.idx + 1>>),
                       !.calls[c].idx = @ + 1,
                       !.calls[c].cur = Len(conc.heap) + 1,
                       !.calls[c].pc = "while"]
        /\ UNCHANGED <<mainVars, layout>>

\* one turn of the while loop of call c
CPop(c) ==
    LET call == conc.calls[c]
    IN  /\ call.pc = "while"
        /\ WhileCond(FrameOfCall(c).stack, conc.heap, conc.heap[call.cur])
        /\ conc' = [conc EXCEPT !.frames[call.frame].stack = Front(@)]
        /\ UNCHANGED <<mainVars, layout>>

\* the loop of call c has ended with a parent on the stack
CAttachChild(c) ==
    LET call == conc.calls[c]
        stk == FrameOfCall(c).stack
    IN  /\ call.pc = "while"
        /\ ~WhileCond(stk, conc.heap, conc.heap[call.cur])
        /\ Len(stk) > 0
        /\ conc' = [conc EXCEPT
                       !.heap[Parent(stk, conc.heap)] = PushChild(@, call.cur),
                       !.frames[call.frame].stack = StackPush(@, call.cur, TRUE),
                       !.calls[c].pc = "forEach"]
        /\ UNCHANGED <<mainVars, layout>>

\* the loop of call c has ended with an empty stack
CAttachRoot(c) ==
    LET call == conc.calls[c]
        stk == FrameOfCall(c).stack
    IN  /\ call.pc = "while"
        /\ ~WhileCond(stk, conc.heap, conc.heap[call.cur])
        /\ Len(stk) = 0
        /\ conc' = [conc EXCEPT
                       !.frames[call.frame].nestedList = Append(@, call.cur),
                       !.frames[call.frame].stack = StackPush(@, call.cur, FALSE),
                       !.calls[c].pc = "forEach"]
        /\ UNCHANGED <<mainVars, layout>>

\* call c returns its nestedList
CReturn(c) ==
    LET call == conc.calls[c]
    IN  /\ call.pc = "forEach"
        /\ call.idx = Len(call.items)
        /\ conc' = [conc EXCEPT !.calls[c].pc = "done"]
        /\ UNCHANGED <<mainVars, layout>>

----------------------------------------------------------------------------
(* ListLayoutWithTags and PaginationComponent: the list of posts and the   *)
(* Previous and Next links under it.  The sidebar of tags is left out.     *)

\* ListLayoutWithTags is not being rendered
NoLayout == [pc |-> "none"]

\* a digit as text
DigitChar(d) ==
    CASE d = 0 -> "0" [] d = 1 -> "1" [] d = 2 -> "2" [] d = 3 -> "3" [] d = 4 -> "4"
      [] d = 5 -> "5" [] d = 6 -> "6" [] d = 7 -> "7" [] d = 8 -> "8" [] d = 9 -> "9"

RECURSIVE NumberToString(_)
\* ${n} in a template literal: the decimal digits, after a minus sign when
\* n is negative
NumberToString(n) ==
    IF n < 0 THEN <<"-">> \o NumberToString(0 - n)
    ELSE IF n < 10 THEN <<DigitChar(n)>>
    ELSE NumberToString(n \div 10) \o <<DigitChar(n % 10)>>

\* pathname.split('/')[1]
BasePath(pathname) == Split(pathname, "/")[2]

\* a faulty variant: page 0 counts as a previous page
PrevPageFromZero(currentPage) == currentPage - 1 >= 0

\* const prevPage = currentPage - 1 > 0
PrevPage(currentPage) == currentPage - 1 > 0

\* const nextPage = currentPage + 1 <= totalPages
NextPage(currentPage, totalPages) == currentPage + 1 <= totalPages

\* the href of the Previous link
PrevHref(basePath, currentPage) ==
    IF currentPage - 1 = 1
    THEN <<"/">> \o basePath \o <<"/">>
    ELSE <<"/">> \o basePath \o <<"/", "p", "a", "g", "e", "/">>
             \o NumberToString(currentPage - 1)

\* the href of the Next link
NextHref(basePath, currentPage) ==
    <<"/">> \o basePath \o <<"/", "p", "a", "g", "e", "/">>
        \o NumberToString(currentPage + 1)

\* what PaginationComponent returns: the page indicator and the two links,
\* each around a button
PaginationComponent(totalPages, currentPage, pathname) ==
    [pagination |-> [total |-> totalPages, page |-> currentPage],
     previous |-> [href |-> PrevHref(BasePath(pathname), currentPage),
                   rel |-> "prev",
                   disabled |-> ~PrevPage(currentPage)],
     next |-> [href |-> NextHref(BasePath(pathname), currentPage),
               rel |-> "next",
               disabled |-> ~NextPage(currentPage, totalPages)]]

\* initialDisplayPosts = []
InitialDisplayPostsOf(p) == OrDefault(p.initialDisplayPosts, <<>>)

\* initialDisplayPosts.length > 0 ? initialDisplayPosts : posts
DisplayPosts(initialDisplayPosts, posts) ==
    IF Len(initialDisplayPosts) > 0 THEN initialDisplayPosts ELSE posts

\* pagination && pagination.totalPages > 1
ShowsPagination(pagination) ==
    pagination # {} /\ (CHOOSE x \in pagination : TRUE).totalPages > 1

\* ListLayoutWithTags up to the list of posts: one li per displayed post,
\* keyed by its path
ListPosts ==
    /\ layout.pc = "start"
    /\ layout' = [layout EXCEPT
                    !.pc = "posts",
                    !.ul = LET displayPosts ==
                                   DisplayPosts(InitialDisplayPostsOf(layout.props),
                                                layout.props.posts)
                           IN  [i \in 1..Len(displayPosts) |->
                                   [key |-> displayPosts[i].path,
                                    title |-> displayPosts[i].title]]]
    /\ UNCHANGED <<mainVars, conc>>

\* the condition under the list holds: PaginationComponent is rendered
MountPagination ==
    /\ layout.pc = "posts"
    /\ ShowsPagination(layout.props.pagination)
    /\ LET pagination == CHOOSE x \in layout.props.pagination : TRUE
       IN  layout' = [layout EXCEPT
                        !.pc = "rendered",
                        !.shown = {PaginationComponent(pagination.totalPages,
                                                       pagination.currentPage,
                                                       layout.pathname)}]
    /\ UNCHANGED <<mainVars, conc>>

\* the condition under the list fails: nothing is rendered there
NoPagination ==
    /\ layout.pc = "posts"
    /\ ~ShowsPagination(layout.props.pagination)
    /\ layout' = [layout EXCEPT !.pc = "rendered", !.shown = {}]
    /\ UNCHANGED <<mainVars, conc>>

----------------------------------------------------------------------------
(* TOCInline: the rendering.  A piece of markup that may be empty is a set  *)
(* with at most one element: {} is the empty fragment <></>.                *)

AsDisclosureOf(p) == OrDefault(p.asDisclosure, DefaultAsDisclosure)

CollapseOf(p) == OrDefault(p.collapse, DefaultCollapse)

UlClassNameOf(p) == OrDefault(p.ulClassName, DefaultUlClassName)

LiClassNameOf(p) == OrDefault(p.liClassName, DefaultLiClassName)

\* a faulty variant: only an undefined list is tested
NoListUndefinedOnly(items) == items = {}

\* !items || items.length === 0
NoList(items) == items = {} \/ Len(OrDefault(items, <<>>)) = 0

\* <a href={item.url} className="no-underline text-foreground">{item.value}</a>
LinkOf(item) ==
    [tag |-> "a", href |-> item.url, className |-> "no-underline text-foreground",
     text |-> item.value]

RECURSIVE CreateList(_, _, _)
\* createList(items): nothing, or the <ul> with one <li> per item, each the
\* item's link followed by createList(item.children)
CreateList(items, nds, p) ==
    IF NoList(items) THEN {}
    ELSE LET list == OrDefault(items, <<>>)
         IN  {[tag |-> "ul", className |-> UlClassNameOf(p),
               li |-> [k \in 1..Len(list) |->
                         [tag |-> "li", key |-> k - 1,
                          className |-> LiClassNameOf(p),
                          a |-> LinkOf(nds[list[k]]),
                          sub |-> CreateList(nds[list[k]].children, nds, p)]]]}

\* <ScrollSpy activeClass="font-bold"><nav>{createList(nestedList)}</nav></ScrollSpy>
ScrollSpyNav(list) ==
    [tag |-> "ScrollSpy", activeClass |-> "font-bold",
     nav |-> [tag |-> "nav", content |-> list]]

\* a faulty variant: a collapsed disclosure leaves its content out
ReturnValueLazy(p, list) ==
    IF AsDisclosureOf(p)
    THEN [details |-> {[tag |-> "details", open |-> ~CollapseOf(p),
                        summary |-> "Table of Contents"]},
          spy |-> ScrollSpyNav(IF CollapseOf(p) THEN {} ELSE list)]
    ELSE [details |-> {}, spy |-> ScrollSpyNav(list)]

\* the fragment TOCInline returns: the ScrollSpy with the nav, inside
\* <details><summary>Table of Contents</summary><div> when asDisclosure
ReturnValue(p, list) ==
    IF AsDisclosureOf(p)
    THEN [details |-> {[tag |-> "details", open |-> ~CollapseOf(p),
                        summary |-> "Table of Contents"]},
          spy |-> ScrollSpyNav(list)]
    ELSE [details |-> {}, spy |-> ScrollSpyNav(list)]

\* TOCInline returns its markup
Render ==
    /\ pc = "done"
    /\ output' = {ReturnValue(props, CreateList({nestedList}, nodes, props))}
    /\ pc' = "rendered"
    /\ UNCHANGED <<toc, props, filteredToc, idx, nodes, stack, nestedList,
                   popped, prev>>
    /\ UNCHANGED <<conc, layout>>

----------------------------------------------------------------------------
(* The inputs *)

\* heading values drawn in Spec
Values == {<<"A">>, <<"a", "b">>}

\* the prop values drawn in Spec; {} is the prop left out
FromHeadingChoices == {{}, {2}}

ToHeadingChoices == {{}, {2}}

ExcludeChoices ==
    { {},
      {[isArray |-> FALSE, val |-> <<"a">>]},
      {[isArray |-> TRUE, val |-> << <<"a">>, <<"A", "B">> >>]} }

\* a toc of n headings with the given depths and values
TocOf(depths, values) ==
    [k \in 1..Len(depths) |->
        [depth |-> depths[k], value |-> values[k], url |-> Anchor(k)]]

\* the value of the k-th heading in BuilderSpec (createNestedList copies
\* the value and never reads it)
Letter(k) == <<"A">>

\* the presentation props drawn in RerunSpec: all left out, an open
\* disclosure, a collapsed disclosure with class names
PresentationChoices ==
    { [asDisclosure |-> {}, collapse |-> {}, ulClassName |-> {}, liClassName |-> {}],
      [asDisclosure |-> {TRUE}, collapse |-> {}, ulClassName |-> {}, liClassName |-> {}],
      [asDisclosure |-> {TRUE}, collapse |-> {TRUE},
       ulClassName |-> {"list-disc"}, liClassName |-> {"ml-2"}] }

\* the filter props drawn in RerunSpec
FilterChoices ==
    { [fromHeading |-> {}, toHeading |-> {}, exclude |-> {}],
      [fromHeading |-> {2}, toHeading |-> {}, exclude |-> {}],
      [fromHeading |-> {}, toHeading |-> {},
       exclude |-> {[isArray |-> FALSE, val |-> <<"a">>]}] }

\* the props object of a filter part and a presentation part
PropsOf(f, d) ==
    [fromHeading |-> f.fromHeading, toHeading |-> f.toHeading, exclude |-> f.exclude,
     asDisclosure |-> d.asDisclosure, collapse |-> d.collapse,
     ulClassName |-> d.ulClassName, liClassName |-> d.liClassName]

NoProps ==
    [fromHeading |-> {}, toHeading |-> {}, exclude |-> {},
     asDisclosure |-> {}, collapse |-> {}, ulClassName |-> {}, liClassName |-> {}]

\* the component is rendered again with the same toc and filter props;
\* every local of the earlier call is gone
Rerender ==
    /\ pc = "rendered"
    /\ Len(prev) + 1 < MaxRenders
    /\ prev' = Append(prev, [nodes |-> nodes, nestedList |-> nestedList,
                             output |-> output, props |-> props])
    /\ \E d \in PresentationChoices :
         props' = PropsOf(props, d)
    /\ filteredToc' = <<>>
    /\ idx' = 0
    /\ nodes' = <<>>
    /\ stack' = <<>>
    /\ nestedList' = <<>>
    /\ popped' = <<>>
    /\ output' = {}
    /\ pc' = "start"
    /\ UNCHANGED toc
    /\ UNCHANGED <<conc, layout>>

\* TOCInline is called with a toc and props
Init ==
    /\ \E n \in 0..MaxTocLen :
         \E depths \in [1..n -> 1..MaxDepth], values \in [1..n -> Values] :
             toc = TocOf(depths, values)
    /\ \E f \in [fromHeading : FromHeadingChoices,
                  toHeading : ToHeadingChoices,
                  exclude : ExcludeChoices] :
         props = PropsOf(f, NoProps)
    /\ filteredToc = <<>>
    /\ idx = 0
    /\ nodes = <<>>
    /\ stack = <<>>
    /\ nestedList = <<>>
    /\ popped = <<>>
    /\ output = {}
    /\ prev = <<>>
    /\ conc = NoCalls
    /\ layout = NoLayout
    /\ pc = "start"

Next == Filter \/ NewItem \/ Pop \/ AttachChild \/ AttachRoot \/ Return \/ Render

Spec == Init /\ [][Next]_vars

\* createNestedList is called with a list of items
BuilderInit ==
    /\ \E n \in 0..MaxLen :
         \E depths \in [1..n -> 1..MaxDepth] :
             toc = TocOf(depths, [k \in 1..n |-> Letter(k)])
    /\ props = NoProps
    /\ filteredToc = [k \in 1..Len(toc) |-> k]
    /\ idx = 0
    /\ nodes = <<>>
    /\ stack = <<>>
    /\ nestedList = <<>>
    /\ popped = <<>>
    /\ output = {}
    /\ prev = <<>>
    /\ conc = NoCalls
    /\ layout = NoLayout
    /\ pc = "forEach"

BuilderNext == NewItem \/ Pop \/ AttachChild \/ AttachRoot \/ Return

BuilderSpec == BuilderInit /\ [][BuilderNext]_vars

\* createNestedList, then the rendering of its result
FairNext == BuilderNext \/ Render

\* the code is synchronous: once called, it runs every step it can take
FairSpec == BuilderInit /\ [][FairNext]_vars /\ WF_vars(FairNext)

\* TOCInline is called with a toc and props, presentation props included,
\* and may be rendered again
RerunInit ==
    /\ \E n \in 0..MaxTocLen :
         \E depths \in [1..n -> 1..MaxDepth] :
             toc = TocOf(depths, [k \in 1..n |-> Letter(k)])
    /\ \E f \in FilterChoices, d \in PresentationChoices : props = PropsOf(f, d)
    /\ filteredToc = <<>>
    /\ idx = 0
    /\ nodes = <<>>
    /\ stack = <<>>
    /\ nestedList = <<>>
    /\ popped = <<>>
    /\ output = {}
    /\ prev = <<>>
    /\ conc = NoCalls
    /\ layout = NoLayout
    /\ pc = "start"

RerunNext == Next \/ Rerender

RerunSpec == RerunInit /\ [][RerunNext]_vars

\* heading values and exclude props drawn in ExcludeSpec
MatchValues == {<<>>, <<"a">>, <<"A">>, <<"b">>, <<"a", "b">>}

MatchExcludes ==
    { {},
      {[isArray |-> TRUE, val |-> <<>>]},
      {[isArray |-> FALSE, val |-> <<"a">>]},
      {[isArray |-> FALSE, val |-> <<"A", "b">>]},
      {[isArray |-> TRUE, val |-> << <<"a">> >>]},
      {[isArray |-> TRUE, val |-> << <<"B">>, <<"a", "B">> >>]} }

\* TOCInline is called with a heading of depth 1 followed by headings of
\* depth 2, any of the values, and an exclude prop
ExcludeInit ==
    /\ \E n \in 0..MaxTocLen :
         \E values \in [1..n -> MatchValues] :
             toc = TocOf([k \in 1..n |-> IF k = 1 THEN 1 ELSE 2], values)
    /\ \E e \in MatchExcludes :
         props = PropsOf([fromHeading |-> {}, toHeading |-> {}, exclude |-> e], NoProps)
    /\ filteredToc = <<>>
    /\ idx = 0
    /\ nodes = <<>>
    /\ stack = <<>>
    /\ nestedList = <<>>
    /\ popped = <<>>
    /\ output = {}
    /\ prev = <<>>
    /\ conc = NoCalls
    /\ layout = NoLayout
    /\ pc = "start"

ExcludeSpec == ExcludeInit /\ [][Next]_vars

\* heading depths drawn in ConcSpec
ConcDepths == {1, 2}

\* two calls of createNestedList, each with a list of its own, have started
ConcInit ==
    /\ \E n1, n2 \in 0..MaxConcLen :
         \E d1 \in [1..n1 -> ConcDepths], d2 \in [1..n2 -> ConcDepths] :
             conc = [heap |-> <<>>,
                     owner |-> <<>>,
                     calls |-> [c \in CallIds |->
                                  [items |-> IF c = 1
                                             THEN TocOf(d1, [k \in 1..n1 |-> Letter(k)])
                                             ELSE TocOf(d2, [k \in 1..n2 |-> Letter(k)]),
                                   idx |-> 0, cur |-> 0, frame |-> FrameOf(c),
                                   pc |-> "forEach"]],
                     frames |-> [f \in CallIds |-> [stack |-> <<>>, nestedList |-> <<>>]]]
    /\ toc = <<>>
    /\ props = NoProps
    /\ filteredToc = <<>>
    /\ idx = 0
    /\ nodes = <<>>
    /\ stack = <<>>
    /\ nestedList = <<>>
    /\ popped = <<>>
    /\ output = {}
    /\ prev = <<>>
    /\ layout = NoLayout
    /\ pc = "none"

ConcNext ==
    \E c \in CallIds :
        CNewItem(c) \/ CPop(c) \/ CAttachChild(c) \/ CAttachRoot(c) \/ CReturn(c)

ConcSpec == ConcInit /\ [][ConcNext]_vars

\* the pathnames drawn in ListSpec: /blog, /blog/page/2, /tags/a
PathnameChoices ==
    { <<"/", "b", "l", "o", "g">>,
      <<"/", "b", "l", "o", "g", "/", "p", "a", "g", "e", "/", "2">>,
      <<"/", "t", "a", "g", "s", "/", "a">> }

\* a post, as far as the list reads it
Post(k) == [path |-> <<"blog/", k>>, title |-> <<"T", k>>]

\* the posts lists drawn in ListSpec
PostsChoices == {<<>>, <<Post(1)>>, <<Post(1), Post(2)>>}

\* the initialDisplayPosts drawn in ListSpec; {} is the prop left out
InitialDisplayPostsChoices == {{}, {<<>>}, {<<Post(1)>>}, {<<Post(2)>>}}

\* the pagination props drawn in ListSpec: left out, or a page of
\* 1..totalPages
PaginationChoices ==
    {{}} \cup UNION {{{[totalPages |-> t, currentPage |-> c]} : c \in 1..t} :
                         t \in 1..MaxPages}

\* ListLayoutWithTags is called with its props under a pathname
ListInit ==
    /\ \E posts \in PostsChoices, initial \in InitialDisplayPostsChoices,
          pagination \in PaginationChoices, pathname \in PathnameChoices :
         layout = [pc |-> "start",
                   props |-> [posts |-> posts, initialDisplayPosts |-> initial,
                              pagination |-> pagination],
                   pathname |-> pathname,
                   ul |-> <<>>,
                   shown |-> {}]
    /\ toc = <<>>
    /\ props = NoProps
    /\ filteredToc = <<>>
    /\ idx = 0
    /\ nodes = <<>>
    /\ stack = <<>>
    /\ nestedList = <<>>
    /\ popped = <<>>
    /\ output = {}
    /\ prev = <<>>
    /\ conc = NoCalls
    /\ pc = "none"

ListNext == ListPosts \/ MountPagination \/ NoPagination

ListSpec == ListInit /\ [][ListNext]_vars

----------------------------------------------------------------------------
(* Notions the properties are stated with *)

Max(S) == CHOOSE x \in S : \A y \in S : y <= x

\* the depth of the k-th item handed to createNestedList
ItemDepth(k) == toc[filteredToc[k]].depth

FilteredDepths == [k \in 1..Len(filteredToc) |-> ItemDepth(k)]

TocDepths == [k \in 1..Len(toc) |-> toc[k].depth]

\* node k has been put into the forest (its callback has ended)
Attached(k) == k < idx \/ (k = idx /\ pc # "while")

AttachedNodes == {k \in 1..Len(nodes) : Attached(k)}

IsRoot(k) == k \in Range(nestedList)

\* the nodes whose children list refers to node k
ParentsOf(k) == {p \in 1..Len(nodes) : k \in Range(ChildrenOf(nodes[p]))}

\* the earlier items of strictly lower depth than item k
LowerBefore(k) == {j \in 1..(k - 1) : ItemDepth(j) < ItemDepth(k)}

RECURSIVE DescendantsOf(_)
DescendantsOf(k) ==
    UNION {{c} \cup DescendantsOf(c) : c \in Range(ChildrenOf(nodes[k]))}

RECURSIVE CountNodes(_)
\* the nodes of a forest, counted over all descendants
CountNodes(list) ==
    IF Len(list) = 0 THEN 0
    ELSE 1 + CountNodes(ChildrenOf(nodes[list[1]])) + CountNodes(Tail(list))

\* the position of x in a sequence without repetition
PosIn(x, s) == CHOOSE p \in 1..Len(s) : s[p] = x

\* the list node k is held by: the root list, or its parent's children
ContainerOf(k) ==
    IF IsRoot(k) THEN nestedList
    ELSE ChildrenOf(nodes[CHOOSE p \in ParentsOf(k) : TRUE])

\* the filter as the documentation states it, on positions of toc: the
\* bounds a prop gives, or 1 and 6, and the exclusion expression's verdict
StatedFrom == IF props.fromHeading = {} THEN 1 ELSE CHOOSE x \in props.fromHeading : TRUE

StatedTo == IF props.toHeading = {} THEN 6 ELSE CHOOSE x \in props.toHeading : TRUE

DepthKept(j) == StatedFrom <= toc[j].depth /\ toc[j].depth <= StatedTo

Excluded(j) == RegExpTest(RegExpSource(ExcludeOf(props)), toc[j].value)

KeptSet == {j \in 1..Len(toc) : DepthKept(j) /\ ~Excluded(j)}

----------------------------------------------------------------------------
(* createNestedList: the shape of the forest (BuilderSpec) *)

\* C1: every heading that has been attached is a child of exactly the
\* nearest preceding heading of strictly lower depth, and is a root exactly
\* when no preceding heading has strictly lower depth; a lone depth-2
\* heading is a single root.
C1_NearestShallowerParent ==
    /\ \A k \in AttachedNodes :
         IF LowerBefore(k) = {}
         THEN IsRoot(k) /\ ParentsOf(k) = {}
         ELSE ~IsRoot(k) /\ ParentsOf(k) = {Max(LowerBefore(k))}
    /\ (pc = "done" /\ FilteredDepths = <<2>>) =>
         (nestedList = <<1>> /\ ChildrenOf(nodes[1]) = <<>>)

\* a finished build where a heading's parent is not the heading before it,
\* beside a root
C1_Witness ==
    /\ pc = "done"
    /\ \E k \in 1..Len(nodes) :
         /\ LowerBefore(k) # {}
         /\ Max(LowerBefore(k)) < k - 1
         /\ ParentsOf(k) = {Max(LowerBefore(k))}
    /\ \E r \in 1..Len(nodes) : r > 1 /\ IsRoot(r)

----------------------------------------------------------------------------
(* TOCInline: the filter and the forest built from its result (Spec) *)

\* C2: the forest holds one node per heading attached so far, and when the
\* build is done the number of its nodes, counted over all descendants,
\* is the number of headings the depth and exclusion filter keeps.
C2_NodeCountIsFilteredCount ==
    /\ pc # "start" => CountNodes(nestedList) = Cardinality(AttachedNodes)
    /\ pc = "done" =>
         /\ CountNodes(nestedList) = Len(filteredToc)
         /\ CountNodes(nestedList) = Cardinality(KeptSet)

\* a finished build of a toc that lost a heading to the filter and nests a
\* kept heading under another
C2_Witness ==
    /\ pc = "done"
    /\ Len(filteredToc) < Len(toc)
    /\ \E p \in 1..Len(nodes) : Len(ChildrenOf(nodes[p])) >= 1
    /\ Len(nestedList) < Len(nodes)

\* C3 as stated: every child is deeper than its parent, and no heading of
\* depth <= the parent's depth lies between the two in toc, the sequence
\* before filtering.
C3_NoShallowerBetweenInToc ==
    pc = "done" =>
        \A p \in 1..Len(nodes) : \A c \in Range(ChildrenOf(nodes[p])) :
            /\ nodes[c].depth > nodes[p].depth
            /\ \A j \in (filteredToc[p] + 1)..(filteredToc[c] - 1) :
                   toc[j].depth > nodes[p].depth

\* C3 amended: every child is deeper than its parent, and no heading of
\* depth <= the parent's depth lies between the two in the filtered
\* sequence.
C3_NoShallowerBetweenInFiltered ==
    \A p \in 1..Len(nodes) : \A c \in Range(ChildrenOf(nodes[p])) :
        /\ nodes[c].depth > nodes[p].depth
        /\ p < c
        /\ \A j \in (p + 1)..(c - 1) : ItemDepth(j) > nodes[p].depth

\* a child whose parent is separated from it, in toc, by a removed heading
\* no deeper than the parent
C3_Witness ==
    /\ pc = "done"
    /\ \E p \in 1..Len(nodes) : \E c \in Range(ChildrenOf(nodes[p])) :
           \E j \in (filteredToc[p] + 1)..(filteredToc[c] - 1) :
               j \notin Range(filteredToc) /\ toc[j].depth <= nodes[p].depth

\* C4: once the filter has run, filteredToc holds exactly the headings with
\* fromHeading <= depth <= toHeading (1 and 6 when the props are left out)
\* whose value the exclusion expression does not match, in document order;
\* nothing of the forest exists before the filter has run, and every node
\* is made from a kept heading.
C4_FilterKeepsExactly ==
    /\ pc = "start" => (nodes = <<>> /\ nestedList = <<>> /\ stack = <<>>)
    /\ pc # "start" =>
         /\ Range(filteredToc) = KeptSet
         /\ \A a, b \in 1..Len(filteredToc) : a < b => filteredToc[a] < filteredToc[b]
         /\ \A k \in 1..Len(nodes) :
              /\ filteredToc[k] \in KeptSet
              /\ nodes[k].depth = toc[filteredToc[k]].depth
              /\ nodes[k].value = toc[filteredToc[k]].value
              /\ nodes[k].url = toc[filteredToc[k]].url
    /\ (pc # "start" /\ props.fromHeading = {} /\ props.toHeading = {}) =>
         \A j \in 1..Len(toc) :
             (j \in Range(filteredToc)) <=>
                 (toc[j].depth \in 1..6 /\ ~Excluded(j))

\* the filter has run on a toc with a heading removed by depth, a heading
\* at the bound of the range removed by the exclusion, and a heading kept
C4_Witness ==
    /\ pc # "start"
    /\ \E a, b, c \in 1..Len(toc) :
         /\ ~DepthKept(a)
         /\ DepthKept(b) /\ Excluded(b) /\ toc[b].depth = StatedTo
         /\ c \in Range(filteredToc) /\ toc[c].depth = StatedFrom
         /\ a < c

\* C5: removed headings are invisible to the nesting: the forest has one
\* node per kept heading, and a node's parent is the nearest earlier kept
\* heading of strictly lower depth, whatever removed headings lie between;
\* [A:2, X:1 removed, B:3] nests B under A.
C5_RemovedHeadingsInvisible ==
    pc = "done" =>
        /\ Len(nodes) = Cardinality(KeptSet)
        /\ \A k \in 1..Len(nodes) :
             LET o == filteredToc[k]
                 shallower == {j \in KeptSet : j < o /\ toc[j].depth < toc[o].depth}
             IN  /\ o \in KeptSet
                 /\ {filteredToc[p] : p \in ParentsOf(k)} =
                        IF shallower = {} THEN {} ELSE {Max(shallower)}
                 /\ IsRoot(k) <=> shallower = {}
        /\ (TocDepths = <<2, 1, 3>> /\ KeptSet = {1, 3}) =>
               (nestedList = <<1>> /\ ChildrenOf(nodes[1]) = <<2>>
                /\ ChildrenOf(nodes[2]) = <<>>)

\* the finished build of [A:2, X:1 removed, B:3]
C5_Witness ==
    /\ pc = "done"
    /\ TocDepths = <<2, 1, 3>>
    /\ KeptSet = {1, 3}
    /\ filteredToc = <<1, 3>>
    /\ ParentsOf(2) = {1}

----------------------------------------------------------------------------
(* createNestedList: adjacent headings, roots, siblings, depth jumps        *)
(* (BuilderSpec)                                                            *)

\* C6: when B follows A with depth(B) > depth(A), B is a child of A and of
\* nothing else, hence a descendant of A, and right after B's callback B is
\* the last child of A.
C6_DeeperNextIsLastChild ==
    \A b \in AttachedNodes :
        (b > 1 /\ ItemDepth(b) > ItemDepth(b - 1)) =>
            /\ ParentsOf(b) = {b - 1}
            /\ b \in DescendantsOf(b - 1)
            /\ ~IsRoot(b)
            /\ b = idx => Last(ChildrenOf(nodes[b - 1])) = b

\* B has just been attached under the root A that precedes it
C6_Witness ==
    /\ pc = "forEach"
    /\ idx >= 2
    /\ ItemDepth(idx) > ItemDepth(idx - 1)
    /\ IsRoot(idx - 1)
    /\ Last(ChildrenOf(nodes[idx - 1])) = idx

\* C7: when B follows A with depth(B) <= depth(A), A has no descendant in
\* any state of the build: neither B nor any later heading is put under A.
C7_NotDeeperNextClosesNode ==
    \A a \in 1..Len(nodes) :
        (a < Len(filteredToc) /\ ItemDepth(a + 1) <= ItemDepth(a)) =>
            /\ DescendantsOf(a) = {}
            /\ \A h \in 1..Len(nodes) : a \notin ParentsOf(h)

\* a finished build where B, no deeper than A, follows A, and a later heading
\* is deeper than A
C7_Witness ==
    /\ pc = "done"
    /\ \E a \in 1..Len(nodes) : \E h \in 1..Len(nodes) :
         /\ a + 1 < h
         /\ ItemDepth(a + 1) <= ItemDepth(a)
         /\ ItemDepth(h) > ItemDepth(a)
         /\ ParentsOf(h) # {}

\* C8: the root list holds as many nodes as there are attached headings
\* without an earlier heading of strictly lower depth, and while a heading
\* is processed, the stack holds no node of strictly lower depth exactly
\* when there is no such earlier heading.
C8_RootCount ==
    /\ Len(nestedList) = Cardinality({k \in AttachedNodes : LowerBefore(k) = {}})
    /\ pc = "while" =>
         (({s \in Range(stack) : nodes[s].depth < nodes[idx].depth} = {})
             <=> LowerBefore(idx) = {})

\* a finished build with several roots and with nested headings
C8_Witness ==
    /\ pc = "done"
    /\ Len(nestedList) >= 2
    /\ Len(nestedList) < Len(nodes)
    /\ \E r \in Range(nestedList) : r > 1 /\ ChildrenOf(nodes[r]) # <<>>

\* C9: two consecutive headings of equal depth are neighbours in the same
\* list, the children of one parent or the root list, in document order;
\* after a heading's callback the stack holds, below that heading, only
\* nodes of strictly lower depth; [A:1, B:2, C:2, D:1] gives the roots A, D
\* with A's children [B, C] and D without children.
C9_EqualDepthRunAreSiblings ==
    /\ \A k \in AttachedNodes :
         (k > 1 /\ ItemDepth(k) = ItemDepth(k - 1)) =>
             /\ ParentsOf(k) = ParentsOf(k - 1)
             /\ IsRoot(k) <=> IsRoot(k - 1)
             /\ ContainerOf(k) = ContainerOf(k - 1)
             /\ PosIn(k, ContainerOf(k)) = PosIn(k - 1, ContainerOf(k)) + 1
    /\ (idx >= 1 /\ Attached(idx)) =>
             /\ Len(stack) >= 1 /\ Last(stack) = idx
             /\ \A s \in Range(Front(stack)) : nodes[s].depth < nodes[idx].depth
    /\ (pc = "done" /\ FilteredDepths = <<1, 2, 2, 1>>) =>
             /\ nestedList = <<1, 4>>
             /\ ChildrenOf(nodes[1]) = <<2, 3>>
             /\ ChildrenOf(nodes[2]) = <<>> /\ ChildrenOf(nodes[3]) = <<>>
             /\ ChildrenOf(nodes[4]) = <<>>

\* the finished build of [A:1, B:2, C:2, D:1]
C9_Witness ==
    /\ pc = "done"
    /\ FilteredDepths = <<1, 2, 2, 1>>
    /\ ChildrenOf(nodes[1]) = <<2, 3>>

\* C10: on an input with a depth jump greater than 1 the build never gets
\* stuck before it is done; the heading B that jumps is a child of the
\* heading A before it, every node keeps the depth, value and url of its
\* heading, and there are no more nodes than headings (no placeholder);
\* [A:1, Z:3] gives A with children [Z].
C10_DepthJumpKept ==
    (\E j \in 2..Len(filteredToc) : ItemDepth(j) > ItemDepth(j - 1) + 1) =>
        /\ pc # "done" => ENABLED BuilderNext
        /\ Len(nodes) = idx
        /\ pc = "done" => Len(nodes) = Len(filteredToc)
        /\ \A k \in 1..Len(nodes) :
             /\ nodes[k].depth = ItemDepth(k)
             /\ nodes[k].value = toc[filteredToc[k]].value
             /\ nodes[k].url = toc[filteredToc[k]].url
        /\ \A b \in AttachedNodes :
             (b > 1 /\ ItemDepth(b) > ItemDepth(b - 1) + 1) =>
                 /\ ParentsOf(b) = {b - 1}
                 /\ ~IsRoot(b)
        /\ (pc = "done" /\ FilteredDepths = <<1, 3>>) =>
             /\ nestedList = <<1>>
             /\ ChildrenOf(nodes[1]) = <<2>>
             /\ nodes[2].depth = 3

\* the finished build of [A:1, Z:3]
C10_Witness ==
    /\ pc = "done"
    /\ FilteredDepths = <<1, 3>>
    /\ ChildrenOf(nodes[1]) = <<2>>
    /\ nodes[2].depth = 3

----------------------------------------------------------------------------
(* TOCInline: the exclusion rule (ExcludeSpec) *)

SameLetter(c, d) == c = d \/ {c, d} = {"a", "A"} \/ {c, d} = {"b", "B"}

EqualIgnoringCase(x, y) ==
    Len(x) = Len(y) /\ \A k \in 1..Len(x) : SameLetter(x[k], y[k])

\* x occurs in y, and y is longer
ProperlyContains(y, x) ==
    /\ Len(x) < Len(y)
    /\ \E o \in 0..(Len(y) - Len(x)) : EqualIgnoringCase(SubSeq(y, o + 1, o + Len(x)), x)

\* the patterns an exclude prop gives: none when it is left out
PatternsOf(e) ==
    IF e = {} THEN {}
    ELSE LET x == CHOOSE y \in e : TRUE
         IN  IF x.isArray THEN Range(x.val) ELSE {x.val}

\* C11: given a pattern or a list of at least one pattern, made of letters,
\* the filter removes a heading exactly when its whole value equals one of
\* the patterns ignoring letter case; a value that properly contains a
\* pattern and equals none is kept.
C11_ExcludeIsExactIgnoringCase ==
    (pc # "start" /\ PatternsOf(props.exclude) # {}) =>
        \A j \in 1..Len(toc) :
            /\ (j \notin Range(filteredToc)) <=>
                   \E pat \in PatternsOf(props.exclude) :
                       EqualIgnoringCase(pat, toc[j].value)
            /\ ((\E pat \in PatternsOf(props.exclude) :
                     ProperlyContains(toc[j].value, pat))
                /\ (\A pat \in PatternsOf(props.exclude) :
                     ~EqualIgnoringCase(pat, toc[j].value)))
                   => j \in Range(filteredToc)

\* the filter has removed a heading that differs from the pattern in case
\* only, and kept a heading that properly contains a pattern
C11_Witness ==
    /\ pc # "start"
    /\ \E j, k \in 1..Len(toc) : \E pat \in PatternsOf(props.exclude) :
         /\ j \notin Range(filteredToc)
         /\ toc[j].value # pat /\ EqualIgnoringCase(pat, toc[j].value)
         /\ k \in Range(filteredToc)
         /\ ProperlyContains(toc[k].value, pat)

\* the props that narrow p: the depth range within p's, the patterns of p
\* among q's
Narrows(p, q) ==
    /\ FromHeadingOf(q) >= FromHeadingOf(p)
    /\ ToHeadingOf(q) <= ToHeadingOf(p)
    /\ PatternsOf(p.exclude) \subseteq PatternsOf(q.exclude)

\* C12 as stated: with the range narrowed or patterns added, from no
\* exclusion at all as well, the forest of the same toc has no more nodes
\* than this one.
C12_FilteringMonotonic ==
    pc = "done" =>
        \A f \in [fromHeading : FromHeadingChoices, toHeading : ToHeadingChoices,
                  exclude : MatchExcludes] :
            Narrows(props, PropsOf(f, NoProps)) =>
                Len(FilteredTocOf(toc, PropsOf(f, NoProps))) <= CountNodes(nestedList)

----------------------------------------------------------------------------
(* TOCInline: the input is left alone (Spec) *)

\* C13: no step of TOCInline changes toc: its length, its order and the
\* fields of its records stay what they were, and no record of toc gets a
\* children field.
C13_InputNotMutated ==
    [][/\ toc' = toc
       /\ \A k \in 1..Len(toc') : DOMAIN toc'[k] = {"depth", "value", "url"}]_vars

\* TOCInline has returned, having put a child into a node's children
C13_Witness ==
    /\ pc = "rendered"
    /\ \E k \in 1..Len(nodes) : nodes[k].children # {}
    /\ \A k \in 1..Len(toc) : DOMAIN toc[k] = {"depth", "value", "url"}

----------------------------------------------------------------------------
(* TOCInline rendered again (RerunSpec) *)

\* C14: when the builder has returned in a later render of the same toc and
\* filter props, its forest is the forest of every earlier render: the same
\* nodes with the same fields and the same children in the same order, and
\* the same roots in the same order; and in no state can the builder take
\* two different steps.
C14_RebuildGivesSameForest ==
    /\ pc \in {"done", "rendered"} =>
         \A r \in 1..Len(prev) :
             /\ prev[r].nodes = nodes
             /\ prev[r].nestedList = nestedList
    /\ ~(ENABLED Pop /\ ENABLED AttachChild)
    /\ ~(ENABLED Pop /\ ENABLED AttachRoot)
    /\ ~(ENABLED AttachChild /\ ENABLED AttachRoot)
    /\ ~(ENABLED NewItem /\ ENABLED Return)
    /\ ENABLED NewItem => ~(ENABLED Pop \/ ENABLED AttachChild \/ ENABLED AttachRoot)

\* the builder has returned for the second time, with a nested heading
C14_Witness ==
    /\ pc = "done"
    /\ Len(prev) >= 1
    /\ prev[1].nodes = nodes
    /\ \E k \in 1..Len(nodes) : nodes[k].children # {}

\* what TOCInline has returned, and the content of its <nav>
Returned == CHOOSE o \in output : TRUE

NavContent == Returned.spy.nav.content

RECURSIVE UlsOf(_)
\* every <ul> of a piece of markup, nested ones included
UlsOf(list) ==
    IF list = {} THEN {}
    ELSE LET ul == CHOOSE u \in list : TRUE
         IN  {ul} \cup UNION {UlsOf(ul.li[k].sub) : k \in 1..Len(ul.li)}

\* every <li> of a piece of markup
LisOf(list) == UNION {{ul.li[k] : k \in 1..Len(ul.li)} : ul \in UlsOf(list)}

\* the node a link points to (the anchors are unique)
NodeOfLink(a) == CHOOSE k \in 1..Len(nodes) : nodes[k].url = a.href

\* C15: when no heading is left after the filter, the forest is empty and
\* the nav holds no list; no <ul> anywhere in the output is without items,
\* and an item has a nested list exactly when its node has children.
C15_NoEmptyListContainer ==
    pc = "rendered" =>
        /\ Len(filteredToc) = 0 =>
               (nestedList = <<>> /\ nodes = <<>> /\ NavContent = {})
        /\ \A ul \in UlsOf(NavContent) : Len(ul.li) >= 1
        /\ \A li \in LisOf(NavContent) :
               (li.sub = {}) <=> (ChildrenOf(nodes[NodeOfLink(li.a)]) = <<>>)

\* TOCInline has returned for a toc the filter has emptied
C15_Witness ==
    /\ pc = "rendered"
    /\ Len(toc) > 0
    /\ Len(filteredToc) = 0
    /\ NavContent = {}

\* the elements of the returned markup that hold something: the <details>
\* with its summary text when there is one, and the lists inside the <nav>
\* (a <nav> without content counts as empty markup)
ContentOf(o) == o.details \cup UlsOf(o.spy.nav.content)

\* C16 as stated: when no heading is left after the filter, TOCInline
\* returns empty markup, as a disclosure or not.
C16_EmptyRendersNothing ==
    (pc = "rendered" /\ Len(filteredToc) = 0) => ContentOf(Returned) = {}

----------------------------------------------------------------------------
(* TOCInline: the links of the rendered list (Spec) *)

RECURSIVE Concat(_)
Concat(ss) == IF Len(ss) = 0 THEN <<>> ELSE ss[1] \o Concat(Tail(ss))

RECURSIVE LinksInOrder(_)
\* the links of a piece of markup in output order: each item's link, then
\* the links of its nested list
LinksInOrder(list) ==
    IF list = {} THEN <<>>
    ELSE LET ul == CHOOSE u \in list : TRUE
         IN  Concat([k \in 1..Len(ul.li) |->
                        <<ul.li[k].a>> \o LinksInOrder(ul.li[k].sub)])

\* the links that are the direct items of a list
ItemLinks(list) ==
    IF list = {} THEN <<>>
    ELSE LET ul == CHOOSE u \in list : TRUE
         IN  [k \in 1..Len(ul.li) |-> ul.li[k].a]

\* C17: the output holds one link per node of the forest; read in output
\* order the links are the kept headings in document order, each with the
\* heading's value as text and its url as target; the items of the outer
\* list are the roots, and each item's link is followed by the list of that
\* node's children, in order.
C17_OneLinkPerNodeInDocumentOrder ==
    pc = "rendered" =>
        LET links == LinksInOrder(NavContent)
        IN  /\ Len(links) = CountNodes(nestedList)
            /\ Len(links) = Len(filteredToc)
            /\ \A k \in 1..Len(links) :
                 /\ links[k].text = toc[filteredToc[k]].value
                 /\ links[k].href = toc[filteredToc[k]].url
            /\ [k \in 1..Len(ItemLinks(NavContent)) |-> ItemLinks(NavContent)[k].href]
                   = [k \in 1..Len(nestedList) |-> nodes[nestedList[k]].url]
            /\ \A li \in LisOf(NavContent) :
                 LET ch == ChildrenOf(nodes[NodeOfLink(li.a)])
                 IN  [k \in 1..Len(ItemLinks(li.sub)) |-> ItemLinks(li.sub)[k].href]
                         = [k \in 1..Len(ch) |-> nodes[ch[k]].url]

\* the output for a toc of three kept headings with different values, two of
\* them nested under the first
C17_Witness ==
    /\ pc = "rendered"
    /\ Len(filteredToc) = 3
    /\ Len(ChildrenOf(nodes[1])) = 2
    /\ toc[2].value # toc[3].value
    /\ Len(LinksInOrder(NavContent)) = 3

----------------------------------------------------------------------------
(* TOCInline: the presentation props (RerunSpec) *)

RECURSIVE LinkTree(_)
\* the nested sequence of links of a piece of markup, without class names:
\* per item the link's target and text and the link tree of its nested list
LinkTree(list) ==
    IF list = {} THEN <<>>
    ELSE LET ul == CHOOSE u \in list : TRUE
         IN  [k \in 1..Len(ul.li) |->
                <<ul.li[k].a.href, ul.li[k].a.text, LinkTree(ul.li[k].sub)>>]

\* C18: a render of the same toc with the same fromHeading, toHeading and
\* exclude, whatever its asDisclosure, collapse, ulClassName and
\* liClassName, builds the forest of every earlier render and emits the same
\* nested sequence of links.
C18_PresentationPropsKeepStructure ==
    pc = "rendered" =>
        \A r \in 1..Len(prev) :
            /\ prev[r].props.fromHeading = props.fromHeading
            /\ prev[r].props.toHeading = props.toHeading
            /\ prev[r].props.exclude = props.exclude
            /\ prev[r].nodes = nodes
            /\ prev[r].nestedList = nestedList
            /\ LET before == CHOOSE o \in prev[r].output : TRUE
               IN  LinkTree(before.spy.nav.content) = LinkTree(NavContent)

\* the second render, as a collapsed disclosure with class names, of a toc
\* first rendered without presentation props, with a nested heading
C18_Witness ==
    /\ pc = "rendered"
    /\ Len(prev) >= 1
    /\ prev[1].props.asDisclosure = {} /\ prev[1].props.ulClassName = {}
    /\ props.asDisclosure = {TRUE} /\ props.collapse = {TRUE}
    /\ props.ulClassName # {} /\ props.liClassName # {}
    /\ \E k \in 1..Len(nodes) : nodes[k].children # {}
    /\ LinkTree(NavContent) # <<>>

----------------------------------------------------------------------------
(* createNestedList: popped nodes (BuilderSpec) *)

\* C20: a node that stack.pop() has removed is not on the stack after any
\* later step of the construction, and no later step changes its children
\* or any other field of it.
C20_PoppedNeverRevisited ==
    [][\A k \in Range(popped) :
           /\ k \notin Range(stack)
           /\ k \notin Range(stack')
           /\ nodes'[k] = nodes[k]]_vars

\* a finished build in which a node with children was popped and a heading
\* was attached after that
C20_Witness ==
    /\ pc = "done"
    /\ \E a \in 1..Len(popped) :
         /\ nodes[popped[a]].children # {}
         /\ \E h \in 1..Len(nodes) : h > popped[a] /\ h \notin DescendantsOf(popped[a])

----------------------------------------------------------------------------
(* createNestedList: two calls at once (ConcSpec) *)

\* the depth of the k-th item handed to call c
CallDepth(c, k) == conc.calls[c].items[k].depth

\* in the forest call c builds alone, the item under which item k hangs
\* (the nearest earlier item of strictly lower depth), 0 for a root
AloneParent(c, k) ==
    LET low == {j \in 1..(k - 1) : CallDepth(c, j) < CallDepth(c, k)}
    IN  IF low = {} THEN 0 ELSE Max(low)

RECURSIVE Sorted(_)
\* the numbers of S in increasing order
Sorted(S) ==
    IF S = {} THEN <<>>
    ELSE LET m == CHOOSE x \in S : \A y \in S : x <= y
         IN  <<m>> \o Sorted(S \ {m})

\* in the forest call c builds alone, the items under item p in document
\* order (the roots for p = 0)
AloneChildren(c, p) ==
    Sorted({k \in 1..Len(conc.calls[c].items) : AloneParent(c, k) = p})

\* a list of objects, each named by the call that made it and the item it
\* copies
Owners(refs) == [i \in 1..Len(refs) |-> conc.owner[refs[i]]]

\* the objects call c has created
OwnRefs(c) == {r \in 1..Len(conc.heap) : conc.owner[r][1] = c}

\* C19: when the steps of two calls of the builder on independent lists
\* interleave, each call works on a stack and an output list of its own that
\* hold only objects it created itself, and the forest a call has returned
\* is the forest it builds when it runs alone: its roots and every node's
\* children are its own items, hung under the nearest earlier item of
\* strictly lower depth in document order, each with the fields of its item.
C19_InterleavedCallsIndependent ==
    \A c \in CallIds :
        /\ \A e \in CallIds \ {c} : conc.calls[e].frame # conc.calls[c].frame
        /\ Range(FrameOfCall(c).stack) \cup Range(FrameOfCall(c).nestedList)
               \subseteq OwnRefs(c)
        /\ conc.calls[c].pc = "done" =>
             /\ Owners(FrameOfCall(c).nestedList)
                    = [i \in 1..Len(AloneChildren(c, 0)) |-> <<c, AloneChildren(c, 0)[i]>>]
             /\ \A k \in 1..Len(conc.calls[c].items) :
                  \E r \in OwnRefs(c) :
                      /\ conc.owner[r] = <<c, k>>
                      /\ conc.heap[r].depth = conc.calls[c].items[k].depth
                      /\ conc.heap[r].value = conc.calls[c].items[k].value
                      /\ conc.heap[r].url = conc.calls[c].items[k].url
                      /\ Owners(ChildrenOf(conc.heap[r]))
                             = [i \in 1..Len(AloneChildren(c, k)) |->
                                    <<c, AloneChildren(c, k)[i]>>]
             /\ Cardinality(OwnRefs(c)) = Len(conc.calls[c].items)

\* both calls have returned after a run in which call 2 created an object
\* between two objects of call 1, and each call has nested a heading
C19_Witness ==
    /\ \A c \in CallIds : conc.calls[c].pc = "done"
    /\ \E r1, r2, r3 \in 1..Len(conc.heap) :
         /\ r1 < r2 /\ r2 < r3
         /\ conc.owner[r1][1] = 1 /\ conc.owner[r2][1] = 2 /\ conc.owner[r3][1] = 1
         /\ r3 \in Range(ChildrenOf(conc.heap[r1]))
    /\ \E r \in OwnRefs(2) : conc.heap[r].children # {}

----------------------------------------------------------------------------
(* createNestedList: the forest has no sharing and no cycle (BuilderSpec) *)

\* the number of places of the list s that hold x
Occurrences(x, s) == Cardinality({i \in 1..Len(s) : s[i] = x})

RECURSIVE SumOver(_, _)
\* the sum of f over the set S
SumOver(f, S) ==
    IF S = {} THEN 0
    ELSE LET x == CHOOSE y \in S : TRUE
         IN  f[x] + SumOver(f, S \ {x})

\* the number of references to node k: places of the root list and of all
\* children lists
RefCount(k) ==
    Occurrences(k, nestedList)
        + SumOver([p \in 1..Len(nodes) |-> Occurrences(k, ChildrenOf(nodes[p]))],
                  1..Len(nodes))

\* C21: every node put into the forest is referenced exactly once, by the
\* root list or by the children list of one node, a node still being
\* placed is referenced nowhere, and no node is in its own subtree.
C21_ReferencedOnceNoCycle ==
    \A k \in 1..Len(nodes) :
        /\ RefCount(k) = IF k \in AttachedNodes THEN 1 ELSE 0
        /\ k \in AttachedNodes => (IsRoot(k) <=> ParentsOf(k) = {})
        /\ k \notin DescendantsOf(k)

\* a finished forest with two roots, one of them with a child that has a
\* child of its own
C21_Witness ==
    /\ pc = "done"
    /\ Len(nestedList) >= 2
    /\ \E p, c \in 1..Len(nodes) :
         /\ c \in Range(ChildrenOf(nodes[p]))
         /\ nodes[c].children # {}
         /\ IsRoot(p)

----------------------------------------------------------------------------
(* createNestedList and createList: termination (FairSpec) *)

\* the list s holds no element twice
NoDuplicates(s) == \A i, j \in 1..Len(s) : s[i] = s[j] => i = j

\* C22: the builder reaches its return and the rendering walk of the forest
\* it built comes to an end, on every heading sequence; every heading
\* placed so far has been pushed once (it is on the stack or has been
\* popped, never both and never twice), a step changes the stack only by
\* popping its top or by pushing the heading being placed, and the pops
\* are no more than the headings.
C22_BuilderAndWalkTerminate ==
    /\ <>(pc = "rendered" /\ output # {} /\ idx = Len(filteredToc))
    /\ [](/\ NoDuplicates(stack) /\ NoDuplicates(popped)
          /\ Range(stack) \cap Range(popped) = {}
          /\ Range(stack) \cup Range(popped) = AttachedNodes
          /\ Len(popped) <= Len(filteredToc))
    /\ [][stack' # stack =>
            \/ /\ stack' = Front(stack)
               /\ popped' = Append(popped, Last(stack))
            \/ /\ stack' = Append(stack, idx)
               /\ idx \notin Range(stack) \cup Range(popped)
               /\ popped' = popped]_vars

\* the walk has ended on a forest three levels deep, built with two pops
\* or more, with a heading still on the stack
C22_Witness ==
    /\ pc = "rendered"
    /\ Len(popped) >= 2
    /\ Len(stack) >= 1
    /\ \E a, b, c \in 1..Len(nodes) :
         /\ b \in Range(ChildrenOf(nodes[a]))
         /\ c \in Range(ChildrenOf(nodes[b]))

----------------------------------------------------------------------------
(* createNestedList: subtrees are intervals (BuilderSpec) *)

\* the place of the first item after h whose depth is at most h's, one past
\* the end of the sequence when there is none
RunEnd(h) ==
    LET closing == {j \in (h + 1)..Len(filteredToc) : ItemDepth(j) <= ItemDepth(h)}
    IN  IF closing = {} THEN Len(filteredToc) + 1
        ELSE CHOOSE j \in closing : \A i \in closing : j <= i

\* C23: the descendants of a heading h are exactly the headings placed so
\* far that follow h before the first later heading of depth at most
\* depth(h); in the finished forest they are that whole contiguous run,
\* up to the end of the sequence when no such heading follows.
C23_SubtreeIsContiguousRun ==
    /\ \A h \in 1..Len(nodes) :
         DescendantsOf(h) = {j \in AttachedNodes : h < j /\ j < RunEnd(h)}
    /\ pc = "done" =>
         \A h \in 1..Len(filteredToc) :
             DescendantsOf(h) = (h + 1)..(RunEnd(h) - 1)

\* a finished forest where a heading has descendants and its run is closed
\* by a later heading, and another heading has descendants up to the end
\* of the sequence
C23_Witness ==
    /\ pc = "done"
    /\ \E h \in 1..Len(nodes) :
         /\ RunEnd(h) <= Len(filteredToc)
         /\ DescendantsOf(h) # {}
    /\ \E g \in 1..Len(nodes) :
         /\ RunEnd(g) = Len(filteredToc) + 1
         /\ DescendantsOf(g) # {}

----------------------------------------------------------------------------
(* createNestedList: the depths of the roots (BuilderSpec) *)

\* the depths of the roots, in the order of the root list
RootDepths == [i \in 1..Len(nestedList) |-> nodes[nestedList[i]].depth]

\* C24: a later root is never deeper than an earlier root; when the
\* sequence starts at depth 3 and has a depth-1 heading later, the finished
\* forest has a root of depth 3 and a root of depth 1.
C24_RootDepthsNonIncreasing ==
    /\ \A i, j \in 1..Len(nestedList) :
         i < j => RootDepths[j] <= RootDepths[i]
    /\ (/\ pc = "done"
        /\ Len(filteredToc) >= 2
        /\ ItemDepth(1) = 3
        /\ \E k \in 2..Len(filteredToc) : ItemDepth(k) = 1)
         => (RootDepths[1] = 3 /\ 1 \in Range(RootDepths) /\ Len(nestedList) >= 2)

\* a finished forest whose first root has depth 3, whose last root has
\* depth 1, and where a root has a child
C24_Witness ==
    /\ pc = "done"
    /\ Len(nestedList) >= 2
    /\ RootDepths[1] = 3
    /\ RootDepths[Len(nestedList)] = 1
    /\ \E i \in 1..Len(nestedList) : nodes[nestedList[i]].children # {}

----------------------------------------------------------------------------
(* TOCInline: the default exclusion (ExcludeSpec) *)

\* C25 as stated: with exclude left out or given as an empty list, every
\* heading whose depth is within fromHeading..toHeading is kept, a heading
\* with the empty value included.
C25_DefaultExcludesNothing ==
    (pc # "start" /\ PatternsOf(props.exclude) = {}) =>
        \A j \in 1..Len(toc) : DepthKept(j) => j \in Range(filteredToc)

----------------------------------------------------------------------------
(* PaginationComponent and ListLayoutWithTags (ListSpec) *)

\* the props ListLayoutWithTags was called with
GivenPagination == CHOOSE x \in layout.props.pagination : TRUE

\* the rendered PaginationComponent
Shown == CHOOSE x \in layout.shown : TRUE

\* the number a digit stands for
DigitValue(ch) == CHOOSE d \in 0..9 : DigitChar(d) = ch

RECURSIVE ParseNumber(_)
\* the number a text of digits, after an optional minus sign, stands for
ParseNumber(str) ==
    IF str[1] = "-" THEN 0 - ParseNumber(Tail(str))
    ELSE IF Len(str) = 1 THEN DigitValue(str[1])
    ELSE 10 * ParseNumber(SubSeq(str, 1, Len(str) - 1)) + DigitValue(str[Len(str)])

\* the page a link leads to: the number after /page/, page 1 for the bare
\* base path
TargetPage(href) ==
    LET parts == Split(href, "/")
    IN  IF Len(parts) = 4 /\ parts[3] = <<"p", "a", "g", "e">>
        THEN ParseNumber(parts[4])
        ELSE 1

\* C26 as stated: for 1 <= currentPage <= totalPages, the Previous and the
\* Next link of a rendered PaginationComponent lead to a page of
\* 1..totalPages, never to page 0 or page totalPages + 1.
C26_LinksStayInRange ==
    (layout.pc = "rendered" /\ layout.shown # {}
        /\ 1 <= Shown.pagination.page
        /\ Shown.pagination.page <= Shown.pagination.total) =>
        /\ TargetPage(Shown.previous.href) \in 1..Shown.pagination.total
        /\ TargetPage(Shown.next.href) \in 1..Shown.pagination.total

\* C27: the Previous button is disabled exactly on page 1 and the Next
\* button exactly on the last page; PaginationComponent is rendered exactly
\* when pagination is given with totalPages > 1, with the page numbers
\* given, and then the two buttons are never both disabled.
C27_ButtonsDisabledAtEnds ==
    layout.pc = "rendered" =>
        /\ layout.shown # {} <=>
               (layout.props.pagination # {} /\ GivenPagination.totalPages > 1)
        /\ layout.shown # {} =>
             /\ Shown.pagination = [total |-> GivenPagination.totalPages,
                                    page |-> GivenPagination.currentPage]
             /\ Shown.previous.disabled <=> GivenPagination.currentPage = 1
             /\ Shown.next.disabled <=>
                    GivenPagination.currentPage = GivenPagination.totalPages
             /\ ~(Shown.previous.disabled /\ Shown.next.disabled)

\* PaginationComponent is shown on the last of three pages: Next is
\* disabled and Previous is not
C27_Witness ==
    /\ layout.pc = "rendered"
    /\ layout.shown # {}
    /\ GivenPagination.currentPage = 3
    /\ Shown.next.disabled
    /\ ~Shown.previous.disabled

\* C28 as stated: the list shows the posts of initialDisplayPosts, in
\* order, whenever that prop is given, an empty one included, and the posts
\* of posts only when it is left out.
C28_ShowsInitialDisplayPostsWhenGiven ==
    layout.pc \in {"posts", "rendered"} =>
        LET expected == IF layout.props.initialDisplayPosts # {}
                        THEN CHOOSE x \in layout.props.initialDisplayPosts : TRUE
                        ELSE layout.props.posts
        IN  [i \in 1..Len(layout.ul) |-> layout.ul[i].key]
                = [i \in 1..Len(expected) |-> expected[i].path]

----------------------------------------------------------------------------
(* createNestedList: the stack (BuilderSpec) *)

\* C29: the depths on the stack increase strictly from bottom to top, the
\* bottom node is a root and every other stack element is the last child
\* of the element below it; after a heading is processed its node is on
\* top of the stack; a turn of the loop removes a top node of depth >= the
\* current heading's depth, and when the loop ends no node of such a depth
\* is left on the stack.
C29_StackIsRootToCurrentPath ==
    /\ [](/\ \A i, j \in 1..Len(stack) :
               i < j => nodes[stack[i]].depth < nodes[stack[j]].depth
          /\ Len(stack) > 0 => IsRoot(stack[1])
          /\ \A i \in 2..Len(stack) :
               /\ nodes[stack[i - 1]].children # {}
               /\ Last(ChildrenOf(nodes[stack[i - 1]])) = stack[i]
          /\ (pc \in {"forEach", "done"} /\ idx >= 1) =>
               (Len(stack) > 0 /\ Last(stack) = idx))
    /\ [][/\ (pc = "while" /\ pc' = "while") =>
               /\ stack' = Front(stack)
               /\ nodes[Last(stack)].depth >= nodes[idx].depth
          /\ (pc = "while" /\ pc' = "forEach") =>
               /\ \A s \in Range(stack) : nodes[s].depth < nodes[idx].depth
               /\ stack' = Append(stack, idx)]_vars

\* a heading has just been processed after two turns of the loop, and the
\* stack holds a root and the new node, the second child of that root
C29_Witness ==
    /\ pc = "forEach"
    /\ Len(stack) = 2
    /\ Len(popped) >= 2
    /\ Last(stack) = idx
    /\ Len(ChildrenOf(nodes[stack[1]])) >= 2

====
